---------------------------- MODULE Spec2Model ----------------------------
(***************************************************************************)
(* Model of the paging core of flamingOS: the Page value type and the      *)
(* ActivePageTable operations of src/src/memory/paging/mod.rs, the         *)
(* reserved ranges computed in rust_main (src/src/lib.rs), and the frame   *)
(* allocator and table/entry helpers those two files call.                 *)
(*                                                                         *)
(* usize and u64 values are 64 bits wide.  They are kept as four 16-bit    *)
(* limbs, least significant first, so that every address of the 64-bit     *)
(* address space is representable and the code's arithmetic (/, *, %, >>,  *)
(* &, |, +, comparisons) is computed on the real values.                   *)
(***************************************************************************)
EXTENDS Integers, Sequences, FiniteSets, TLC

(***************************************************************************)
(* 64-bit machine words                                                    *)
(***************************************************************************)
\* usize is 64 bits: four limbs of 16 bits
Base == 2^16

Limbs == 1..4

\* the word of a small natural number (n < 2^31)
W(n) == <<n % Base, (n \div Base) % Base, 0, 0>>

Zero == W(0)

\* the natural number of a word that fits 31 bits
Val(w) == w[1] + Base * w[2]

\* a < b, a <= b on words: the most significant differing limb decides
Lt(a, b) ==
    IF a[4] # b[4] THEN a[4] < b[4]
    ELSE IF a[3] # b[3] THEN a[3] < b[3]
    ELSE IF a[2] # b[2] THEN a[2] < b[2]
    ELSE a[1] < b[1]
Le(a, b) == ~Lt(b, a)

\* a + b, wrapping at 2^64
Add(a, b) ==
    LET s1 == a[1] + b[1]
        s2 == a[2] + b[2] + s1 \div Base
        s3 == a[3] + b[3] + s2 \div Base
        s4 == a[4] + b[4] + s3 \div Base
    IN  <<s1 % Base, s2 % Base, s3 % Base, s4 % Base>>

\* a - b, wrapping at 2^64
Sub(a, b) ==
    LET d1 == a[1] - b[1]
        d2 == a[2] - b[2] - (IF d1 < 0 THEN 1 ELSE 0)
        d3 == a[3] - b[3] - (IF d2 < 0 THEN 1 ELSE 0)
        d4 == a[4] - b[4] - (IF d3 < 0 THEN 1 ELSE 0)
    IN  <<d1 % Base, d2 % Base, d3 % Base, d4 % Base>>

\* a * m for a small multiplier m (m <= 2^14), wrapping at 2^64
MulSmall(a, m) ==
    LET p1 == a[1] * m
        p2 == a[2] * m + p1 \div Base
        p3 == a[3] * m + p2 \div Base
        p4 == a[4] * m + p3 \div Base
    IN  <<p1 % Base, p2 % Base, p3 % Base, p4 % Base>>

\* a / d and a % d for a small divisor d (d <= 2^14): long division from
\* the most significant limb
DivSmall(a, d) ==
    LET n4 == a[4]
        n3 == (n4 % d) * Base + a[3]
        n2 == (n3 % d) * Base + a[2]
        n1 == (n2 % d) * Base + a[1]
    IN  <<n1 \div d, n2 \div d, n3 \div d, n4 \div d>>

ModSmall(a, d) ==
    ((((((a[4] % d) * Base + a[3]) % d) * Base + a[2]) % d) * Base + a[1]) % d

\* limb i of a, zero beyond the top limb
LimbAt(a, i) == IF i \in Limbs THEN a[i] ELSE 0

\* limb i of a >> k
ShrLimb(a, i, q, r) ==
    (LimbAt(a, i + q) \div 2^r)
      + (LimbAt(a, i + q + 1) % 2^r) * (Base \div 2^r)

\* a >> k, 0 <= k < 64
Shr(a, k) ==
    LET q == k \div 16
        r == k % 16
    IN  <<ShrLimb(a, 1, q, r), ShrLimb(a, 2, q, r),
          ShrLimb(a, 3, q, r), ShrLimb(a, 4, q, r)>>

\* bitwise and / or of two naturals, bit by bit from the lowest
RECURSIVE AndN(_, _)
AndN(x, y) ==
    IF x = 0 \/ y = 0 THEN 0
    ELSE IF y = Base - 1 THEN x
    ELSE (x % 2) * (y % 2) + 2 * AndN(x \div 2, y \div 2)

RECURSIVE OrN(_, _)
OrN(x, y) ==
    IF x = 0 THEN y
    ELSE IF y = 0 THEN x
    ELSE (IF x % 2 = 1 \/ y % 2 = 1 THEN 1 ELSE 0) + 2 * OrN(x \div 2, y \div 2)

\* a & b, a | b on words
AndW(a, b) ==
    <<AndN(a[1], b[1]), AndN(a[2], b[2]), AndN(a[3], b[3]), AndN(a[4], b[4])>>
OrW(a, b) ==
    <<OrN(a[1], b[1]), OrN(a[2], b[2]), OrN(a[3], b[3]), OrN(a[4], b[4])>>

\* bit i (0..63) of a word
Bit(a, i) == (a[(i \div 16) + 1] \div 2^(i % 16)) % 2

\* a word written as in the source, most significant 16 bits first
Hex4(a, b, c, d) == <<d, c, b, a>>

(***************************************************************************)
(* Option values and panics                                                *)
(***************************************************************************)
None == [tag |-> "None"]
Some(x) == [tag |-> "Some", v |-> x]
\* a failed assert!, expect or unwrap: panic_fmt prints and loops forever
Panic(msg) == [tag |-> "Panic", msg |-> msg]

\* a let binding: F applied to the value of x, x evaluated once
Bind(x, F(_)) == CHOOSE r \in {F(v) : v \in {x}} : TRUE

is_some(o) == o.tag = "Some"

(***************************************************************************)
(* Frame and Page                                                          *)
(***************************************************************************)
PAGE_SIZE == 4096
ENTRY_COUNT == 512

Frame_containing_address(address) == [number |-> DivSmall(address, PAGE_SIZE)]

Frame_start_address(frame) == MulSmall(frame.number, PAGE_SIZE)

\* mutant of CanonicalAddress: the lower half is taken to include 2^47
CanonicalAddress_inclusive(address) ==
    \/ Le(address, Hex4(\h0000, \h8000, \h0000, \h0000))
    \/ Le(Hex4(\hffff, \h8000, \h0000, \h0000), address)

\* the assert! of Page::containing_address
CanonicalAddress(address) ==
    \/ Lt(address, Hex4(\h0000, \h8000, \h0000, \h0000))
    \/ Le(Hex4(\hffff, \h8000, \h0000, \h0000), address)

\* Page::containing_address, where its assert! passes
Page_containing_address(address) == [number |-> DivSmall(address, PAGE_SIZE)]

start_address(page) == MulSmall(page.number, PAGE_SIZE)

p4_index(page) == Val(AndW(Shr(page.number, 27), W(\o777)))
\* mutant of p3_index: the shift of p2_index
p3_index_shift_9(page) == Val(AndW(Shr(page.number, 9), W(\o777)))

p3_index(page) == Val(AndW(Shr(page.number, 18), W(\o777)))
p2_index(page) == Val(AndW(Shr(page.number, 9), W(\o777)))
p1_index(page) == Val(AndW(Shr(page.number, 0), W(\o777)))

(***************************************************************************)
(* Entry and EntryFlags: one 64-bit page-table entry                       *)
(***************************************************************************)
PRESENT == W(2^0)
WRITABLE == W(2^1)
HUGE_PAGE == W(2^7)
NO_EXECUTE == Hex4(\h8000, \h0000, \h0000, \h0000)

\* the physical-address field of an entry, bits 12..51
AddressMask == Hex4(\h000f, \hffff, \hffff, \hf000)

EntryFlags_empty == Zero

contains(flags, flag) == AndW(flags, flag) = flag

\* the flag bits of an entry: everything outside the address field
FlagMask == Hex4(\hfff0, \h0000, \h0000, \h0fff)

Entry_flags(entry) == AndW(entry, FlagMask)

Entry_is_unused(entry) == entry = Zero

Entry_pointed_frame(entry) ==
    IF contains(Entry_flags(entry), PRESENT)
    THEN Some(Frame_containing_address(AndW(entry, AddressMask)))
    ELSE None

\* the entry written by Entry::set(frame, flags)
Entry_set(frame, flags) == OrW(Frame_start_address(frame), flags)

Entry_set_unused == Zero

(***************************************************************************)
(* Physical memory holding page tables.  mem maps a frame number to the    *)
(* table stored in that frame: a function from the indices of its nonzero  *)
(* entries to the entries; every other entry of the 512 is zero.           *)
(***************************************************************************)
EmptyTable == [i \in {} |-> Zero]

TableAt(m, t) == IF t.number \in DOMAIN m THEN m[t.number] ELSE EmptyTable

\* table[index]
EntryAt(m, t, index) ==
    IF index \in DOMAIN TableAt(m, t) THEN TableAt(m, t)[index] ELSE Zero

\* m with the table of frame t replaced
WithTable(m, t, tab) ==
    [n \in DOMAIN m \cup {t.number} |-> IF n = t.number THEN tab ELSE m[n]]

\* table[index] = entry
WriteEntry(m, t, index, entry) ==
    LET old == TableAt(m, t)
        dom == IF entry = Zero THEN DOMAIN old \ {index}
                               ELSE DOMAIN old \cup {index}
    IN  WithTable(m, t, [i \in dom |-> IF i = index THEN entry ELSE old[i]])

\* Table::zero
Table_zero(m, t) == WithTable(m, t, EmptyTable)

\* Table::next_table (and next_table_mut): the table in the frame the entry
\* points to, reached through the recursive mapping
next_table(m, t, index) ==
    Bind(EntryAt(m, t, index), LAMBDA entry :
    Bind(Entry_flags(entry), LAMBDA flags :
        IF contains(flags, PRESENT) /\ ~contains(flags, HUGE_PAGE)
        THEN Entry_pointed_frame(entry)
        ELSE None))

(***************************************************************************)
(* ActivePageTable                                                         *)
(***************************************************************************)
\* the frame of the active level-4 table (table::P4 through the recursive
\* mapping): set up by the boot code inside the kernel image
P4Frame == [number |-> W(2)]

\* Option::and_then on the Option values above
and_then(o, f(_)) == Bind(o, LAMBDA x : IF is_some(x) THEN f(x.v) ELSE x)

\* mutant of huge_page: the level-2 index of a 1GiB page is added unscaled
huge_page_unscaled(m, page, p3) ==
    IF ~is_some(p3) THEN None
    ELSE
      Bind(EntryAt(m, p3.v, p3_index(page)), LAMBDA p3_entry :
      Bind(Entry_pointed_frame(p3_entry), LAMBDA start3 :
        IF is_some(start3) /\ contains(Entry_flags(p3_entry), HUGE_PAGE)
        THEN \* 1GiB page: the frame must be 1GiB aligned, that is
             \* number % (ENTRY_COUNT * ENTRY_COUNT) == 0, computed in two
             \* divisions by ENTRY_COUNT
             Bind(start3.v.number, LAMBDA number :
               IF ModSmall(DivSmall(number, ENTRY_COUNT), ENTRY_COUNT) # 0
                  \/ ModSmall(number, ENTRY_COUNT) # 0
               THEN Panic("1GiB huge page not aligned")
               ELSE Some([number |->
                      Add(number, W(p2_index(page) + p1_index(page)))]))
        ELSE
          Bind(next_table(m, p3.v, p3_index(page)), LAMBDA p2 :
            IF ~is_some(p2) THEN None
            ELSE
              Bind(EntryAt(m, p2.v, p2_index(page)), LAMBDA p2_entry :
              Bind(Entry_pointed_frame(p2_entry), LAMBDA start2 :
                IF is_some(start2) /\ contains(Entry_flags(p2_entry), HUGE_PAGE)
                THEN \* 2MiB page: the frame must be 2MiB aligned
                     IF ModSmall(start2.v.number, ENTRY_COUNT) # 0
                     THEN Panic("2MiB huge page not aligned")
                     ELSE Some([number |->
                            Add(start2.v.number, W(p1_index(page)))])
                ELSE None)))))

\* mutant of huge_page: the start frame of a huge page is rounded down to
\* its alignment instead of asserted to be aligned
huge_page_rounded(m, page, p3) ==
    IF ~is_some(p3) THEN None
    ELSE
      Bind(EntryAt(m, p3.v, p3_index(page)), LAMBDA p3_entry :
      Bind(Entry_pointed_frame(p3_entry), LAMBDA start3 :
        IF is_some(start3) /\ contains(Entry_flags(p3_entry), HUGE_PAGE)
        THEN \* 1GiB page: the frame must be 1GiB aligned, that is
             \* number % (ENTRY_COUNT * ENTRY_COUNT) == 0, computed in two
             \* divisions by ENTRY_COUNT
             Bind(start3.v.number, LAMBDA number :
               IF ModSmall(DivSmall(number, ENTRY_COUNT), ENTRY_COUNT) # 0
                  \/ ModSmall(number, ENTRY_COUNT) # 0
               THEN Some([number |->
                      Add(MulSmall(DivSmall(DivSmall(number, ENTRY_COUNT), ENTRY_COUNT),
                                   ENTRY_COUNT * ENTRY_COUNT),
                          W(p2_index(page) * ENTRY_COUNT + p1_index(page)))])
               ELSE Some([number |->
                      Add(number, W(p2_index(page) * ENTRY_COUNT + p1_index(page)))]))
        ELSE
          Bind(next_table(m, p3.v, p3_index(page)), LAMBDA p2 :
            IF ~is_some(p2) THEN None
            ELSE
              Bind(EntryAt(m, p2.v, p2_index(page)), LAMBDA p2_entry :
              Bind(Entry_pointed_frame(p2_entry), LAMBDA start2 :
                IF is_some(start2) /\ contains(Entry_flags(p2_entry), HUGE_PAGE)
                THEN \* 2MiB page: the frame must be 2MiB aligned
                     IF ModSmall(start2.v.number, ENTRY_COUNT) # 0
                     THEN Some([number |->
                            Add(MulSmall(DivSmall(start2.v.number, ENTRY_COUNT),
                                         ENTRY_COUNT),
                                W(p1_index(page)))])
                     ELSE Some([number |->
                            Add(start2.v.number, W(p1_index(page)))])
                ELSE None)))))

\* the closure huge_page of translate_page
huge_page(m, page, p3) ==
    IF ~is_some(p3) THEN None
    ELSE
      Bind(EntryAt(m, p3.v, p3_index(page)), LAMBDA p3_entry :
      Bind(Entry_pointed_frame(p3_entry), LAMBDA start3 :
        IF is_some(start3) /\ contains(Entry_flags(p3_entry), HUGE_PAGE)
        THEN \* 1GiB page: the frame must be 1GiB aligned, that is
             \* number % (ENTRY_COUNT * ENTRY_COUNT) == 0, computed in two
             \* divisions by ENTRY_COUNT
             Bind(start3.v.number, LAMBDA number :
               IF ModSmall(DivSmall(number, ENTRY_COUNT), ENTRY_COUNT) # 0
                  \/ ModSmall(number, ENTRY_COUNT) # 0
               THEN Panic("1GiB huge page not aligned")
               ELSE Some([number |->
                      Add(number, W(p2_index(page) * ENTRY_COUNT + p1_index(page)))]))
        ELSE
          Bind(next_table(m, p3.v, p3_index(page)), LAMBDA p2 :
            IF ~is_some(p2) THEN None
            ELSE
              Bind(EntryAt(m, p2.v, p2_index(page)), LAMBDA p2_entry :
              Bind(Entry_pointed_frame(p2_entry), LAMBDA start2 :
                IF is_some(start2) /\ contains(Entry_flags(p2_entry), HUGE_PAGE)
                THEN \* 2MiB page: the frame must be 2MiB aligned
                     IF ModSmall(start2.v.number, ENTRY_COUNT) # 0
                     THEN Panic("2MiB huge page not aligned")
                     ELSE Some([number |->
                            Add(start2.v.number, W(p1_index(page)))])
                ELSE None)))))

\* ActivePageTable::translate_page
translate_page(m, page) ==
    LET P2of(t3) == next_table(m, t3, p3_index(page))
        P1of(t2) == next_table(m, t2, p2_index(page))
        FrameOf(t1) == Entry_pointed_frame(EntryAt(m, t1, p1_index(page)))
    IN  Bind(next_table(m, P4Frame, p4_index(page)), LAMBDA p3 :
        Bind(and_then(and_then(and_then(p3, P2of), P1of), FrameOf), LAMBDA walk :
            IF is_some(walk) THEN walk ELSE huge_page(m, page, p3)))

\* ActivePageTable::translate
translate(m, virtual_address) ==
    Bind(virtual_address, LAMBDA address :
        IF ~CanonicalAddress(address)
        THEN Panic("invalid address")
        ELSE Bind(translate_page(m, Page_containing_address(address)), LAMBDA r :
               IF is_some(r)
               THEN Some(Add(MulSmall(r.v.number, PAGE_SIZE),
                             W(ModSmall(address, PAGE_SIZE))))
               ELSE r))

(***************************************************************************)
(* rust_main: the reserved ranges handed to AreaFrameAllocator::new.       *)
(* boot_info is the decoded boot information: sections (the ELF sections,  *)
(* each [addr, size]), memory_areas (a sequence of [base_addr, length]),   *)
(* and the blob's own multiboot_information_address and total_size.        *)
(***************************************************************************)
\* the least / greatest word of a nonempty set of words
MinW(S) == CHOOSE x \in S : \A y \in S : Le(x, y)
MaxW(S) == CHOOSE x \in S : \A y \in S : Le(y, x)

kernel_start(boot_info) == MinW({s.addr : s \in boot_info.sections})

\* mutant of kernel_end: the size of the sections is left out
kernel_end_no_size(boot_info) == MaxW({s.addr : s \in boot_info.sections})

kernel_end(boot_info) == MaxW({Add(s.addr, s.size) : s \in boot_info.sections})

multiboot_start(boot_info) == boot_info.multiboot_information_address

multiboot_end(boot_info) == Add(multiboot_start(boot_info), boot_info.total_size)

(***************************************************************************)
(* AreaFrameAllocator                                                      *)
(***************************************************************************)
Frame_lt(f, g) == Lt(f.number, g.number)
Frame_le(f, g) == Le(f.number, g.number)

\* the frame holding the last byte of a memory area
area_last_frame(area) ==
    Frame_containing_address(Sub(Add(area.base_addr, area.length), W(1)))

\* mutant of choose_next_area: the areas are taken in the order of the
\* memory map, and the cursor is set to the first frame of the area taken
choose_next_area_in_order(a) ==
    LET cur == IF is_some(a.current_area)
               THEN CHOOSE i \in 1..Len(a.areas) : a.areas[i] = a.current_area.v
               ELSE 0
    IN  IF cur = Len(a.areas) THEN [a EXCEPT !.current_area = None]
        ELSE [a EXCEPT !.current_area = Some(a.areas[cur + 1]),
                       !.next_free_frame =
                           Frame_containing_address(a.areas[cur + 1].base_addr)]

\* choose_next_area: of the areas not yet behind the cursor, the one with
\* the least base address becomes the current area (none when no area is
\* left), and the cursor jumps forward to its first frame
choose_next_area(a) ==
    LET remaining == {i \in 1..Len(a.areas) :
                        Frame_le(a.next_free_frame, area_last_frame(a.areas[i]))}
        first == CHOOSE i \in remaining : \A j \in remaining :
                    \/ Lt(a.areas[i].base_addr, a.areas[j].base_addr)
                    \/ a.areas[i].base_addr = a.areas[j].base_addr /\ i <= j
        start_frame == Frame_containing_address(a.areas[first].base_addr)
    IN  IF remaining = {} THEN [a EXCEPT !.current_area = None]
        ELSE [a EXCEPT !.current_area = Some(a.areas[first]),
                       !.next_free_frame =
                           IF Frame_lt(a.next_free_frame, start_frame)
                           THEN start_frame ELSE a.next_free_frame]

\* AreaFrameAllocator::new
AreaFrameAllocator_new(k_start, k_end, m_start, m_end, memory_areas) ==
    choose_next_area(
        [next_free_frame |-> Frame_containing_address(Zero),
         current_area |-> None,
         areas |-> memory_areas,
         kernel_start |-> Frame_containing_address(k_start),
         kernel_end |-> Frame_containing_address(k_end),
         multiboot_start |-> Frame_containing_address(m_start),
         multiboot_end |-> Frame_containing_address(m_end)])

\* most rounds the cursor loop of one allocate_frame call is followed for
MaxRounds == 8

\* the cursor loop of allocate_frame: [alloc, frame, done], done = FALSE
\* when the loop is still running after `rounds` rounds
RECURSIVE allocate_loop(_, _)
allocate_loop(allocator_before, rounds) ==
    Bind(allocator_before, LAMBDA a :
    IF rounds = 0 THEN [alloc |-> a, frame |-> None, done |-> FALSE]
    ELSE IF ~is_some(a.current_area)
    THEN [alloc |-> a, frame |-> None, done |-> TRUE]
    ELSE
      LET frame == a.next_free_frame
      IN  IF Frame_lt(area_last_frame(a.current_area.v), frame)
          THEN \* all frames of the current area are used
               allocate_loop(choose_next_area(a), rounds - 1)
          ELSE IF Frame_le(a.kernel_start, frame) /\ Frame_le(frame, a.kernel_end)
          THEN \* the frame is used by the kernel
               allocate_loop(
                   [a EXCEPT !.next_free_frame =
                       [number |-> Add(a.kernel_end.number, W(1))]],
                   rounds - 1)
          ELSE IF /\ Frame_le(a.multiboot_start, frame)
                  /\ Frame_le(frame, a.multiboot_end)
          THEN \* the frame is used by the boot information
               allocate_loop(
                   [a EXCEPT !.next_free_frame =
                       [number |-> Add(a.multiboot_end.number, W(1))]],
                   rounds - 1)
          ELSE \* the frame is unused: hand it out and advance the cursor
               [alloc |-> [a EXCEPT !.next_free_frame =
                              [number |-> Add(frame.number, W(1))]],
                frame |-> Some(frame),
                done |-> TRUE])

\* mutant of allocate_frame: the cursor is not advanced
allocate_frame_no_advance(a) ==
    Bind(a, LAMBDA before : [allocate_loop(before, MaxRounds) EXCEPT !.alloc = before])

\* FrameAllocator::allocate_frame of AreaFrameAllocator
allocate_frame(a) == allocate_loop(a, MaxRounds)

(***************************************************************************)
(* The mutating operations.  A machine state s is a record                 *)
(*   mem        the page tables in physical memory                         *)
(*   allocator  the AreaFrameAllocator                                     *)
(*   tlb        the addresses flushed from the TLB, in order               *)
(*   handed     the frames allocate_frame has returned, in order           *)
(*   panic      "none", or the message of the panic that halted the kernel *)
(* and each operation maps the state before the call to the state after.   *)
(***************************************************************************)
Running(s) == s.panic = "none"

Halt(s, msg) == [s EXCEPT !.panic = msg]

\* allocator.allocate_frame() on the machine state: [s, frame]
call_allocate_frame(s) ==
    Bind(allocate_frame(s.allocator), LAMBDA r :
        [s |-> [s EXCEPT !.allocator = r.alloc,
                         !.handed = IF is_some(r.frame)
                                    THEN Append(@, r.frame.v) ELSE @,
                         !.panic = IF r.done THEN @ ELSE "allocate_frame loops"],
         frame |-> r.frame])

\* mutant of next_table_create: the new table is used as the allocator
\* handed it out, not zeroed
next_table_create_no_zero(before, t, index) ==
    Bind(before, LAMBDA s :
    IF ~Running(s) THEN [s |-> s, t |-> t]
    ELSE
      Bind(next_table(s.mem, t, index), LAMBDA existing :
        IF is_some(existing) THEN [s |-> s, t |-> existing.v]
        ELSE
          Bind(call_allocate_frame(s), LAMBDA r :
            IF ~Running(r.s) THEN [s |-> r.s, t |-> t]
            ELSE IF ~is_some(r.frame)
            THEN [s |-> Halt(r.s, "no frames available"), t |-> t]
            ELSE
              [s |-> [r.s EXCEPT !.mem =
                         WriteEntry(@, t, index,
                                    Entry_set(r.frame.v, OrW(PRESENT, WRITABLE)))],
               t |-> r.frame.v])))

\* Table::next_table_create: [s, t], t the frame of the next table
next_table_create(before, t, index) ==
    Bind(before, LAMBDA s :
    IF ~Running(s) THEN [s |-> s, t |-> t]
    ELSE
      Bind(next_table(s.mem, t, index), LAMBDA existing :
        IF is_some(existing) THEN [s |-> s, t |-> existing.v]
        ELSE
          Bind(call_allocate_frame(s), LAMBDA r :
            IF ~Running(r.s) THEN [s |-> r.s, t |-> t]
            ELSE IF ~is_some(r.frame)
            THEN [s |-> Halt(r.s, "no frames available"), t |-> t]
            ELSE
              Bind(WriteEntry(r.s.mem, t, index,
                              Entry_set(r.frame.v, OrW(PRESENT, WRITABLE))),
                   LAMBDA installed :
              Bind(next_table(installed, t, index).v, LAMBDA created :
                [s |-> [r.s EXCEPT !.mem = Table_zero(installed, created)],
                 t |-> created])))))

\* mutant of map_to: PRESENT is not added to the flags
map_to_flags_only(s, page, frame, flags) ==
    Bind(next_table_create(s, P4Frame, p4_index(page)), LAMBDA r3 :
    Bind(next_table_create(r3.s, r3.t, p3_index(page)), LAMBDA r2 :
    Bind(next_table_create(r2.s, r2.t, p2_index(page)), LAMBDA r1 :
        IF ~Running(r1.s) THEN r1.s
        ELSE IF ~Entry_is_unused(EntryAt(r1.s.mem, r1.t, p1_index(page)))
        THEN Halt(r1.s, "map_to: page already mapped")
        ELSE [r1.s EXCEPT !.mem =
                 WriteEntry(@, r1.t, p1_index(page), Entry_set(frame, flags))])))

\* mutant of map_to: the entry is written before it is checked
map_to_set_first(s, page, frame, flags) ==
    Bind(next_table_create(s, P4Frame, p4_index(page)), LAMBDA r3 :
    Bind(next_table_create(r3.s, r3.t, p3_index(page)), LAMBDA r2 :
    Bind(next_table_create(r2.s, r2.t, p2_index(page)), LAMBDA r1 :
    Bind([r1.s EXCEPT !.mem =
             WriteEntry(@, r1.t, p1_index(page),
                        Entry_set(frame, OrW(flags, PRESENT)))], LAMBDA written :
        IF ~Running(r1.s) THEN r1.s
        ELSE IF ~Entry_is_unused(EntryAt(r1.s.mem, r1.t, p1_index(page)))
        THEN Halt(written, "map_to: page already mapped")
        ELSE written))))

\* mutant of map_to: the level-1 table is zeroed before the entry is set
map_to_fresh_level1(s, page, frame, flags) ==
    Bind(next_table_create(s, P4Frame, p4_index(page)), LAMBDA r3 :
    Bind(next_table_create(r3.s, r3.t, p3_index(page)), LAMBDA r2 :
    Bind(next_table_create(r2.s, r2.t, p2_index(page)), LAMBDA r1 :
        IF ~Running(r1.s) THEN r1.s
        ELSE IF ~Entry_is_unused(EntryAt(r1.s.mem, r1.t, p1_index(page)))
        THEN Halt(r1.s, "map_to: page already mapped")
        ELSE [r1.s EXCEPT !.mem =
                 WriteEntry(Table_zero(@, r1.t), r1.t, p1_index(page),
                            Entry_set(frame, OrW(flags, PRESENT)))])))

\* ActivePageTable::map_to
map_to(s, page, frame, flags) ==
    Bind(next_table_create(s, P4Frame, p4_index(page)), LAMBDA r3 :
    Bind(next_table_create(r3.s, r3.t, p3_index(page)), LAMBDA r2 :
    Bind(next_table_create(r2.s, r2.t, p2_index(page)), LAMBDA r1 :
        IF ~Running(r1.s) THEN r1.s
        ELSE IF ~Entry_is_unused(EntryAt(r1.s.mem, r1.t, p1_index(page)))
        THEN Halt(r1.s, "map_to: page already mapped")
        ELSE [r1.s EXCEPT !.mem =
                 WriteEntry(@, r1.t, p1_index(page),
                            Entry_set(frame, OrW(flags, PRESENT)))])))

\* mutant of map: map_to works on the allocator as it was before the data
\* frame was taken from it
map_stale_allocator(s, page, flags) ==
    Bind(call_allocate_frame(s), LAMBDA r :
        IF ~Running(r.s) THEN r.s
        ELSE IF ~is_some(r.frame) THEN Halt(r.s, "out of memory")
        ELSE map_to(s, page, r.frame.v, flags))

\* ActivePageTable::map
map(s, page, flags) ==
    Bind(call_allocate_frame(s), LAMBDA r :
        IF ~Running(r.s) THEN r.s
        ELSE IF ~is_some(r.frame) THEN Halt(r.s, "out of memory")
        ELSE map_to(r.s, page, r.frame.v, flags))

\* mutant of identity_map: the page is taken from the frame number, not from
\* the start address of the frame
identity_map_of_number(s, frame, flags) ==
    IF ~CanonicalAddress(frame.number)
    THEN Halt(s, "invalid address")
    ELSE map_to(s, Page_containing_address(frame.number), frame, flags)

\* ActivePageTable::identity_map
identity_map(s, frame, flags) ==
    IF ~CanonicalAddress(Frame_start_address(frame))
    THEN Halt(s, "invalid address")
    ELSE map_to(s, Page_containing_address(Frame_start_address(frame)),
                frame, flags)

\* the level-1 table of a page, found as unmap finds it
level1_table(m, page) ==
    LET P3of(t4) == next_table(m, t4, p4_index(page))
        P2of(t3) == next_table(m, t3, p3_index(page))
        P1of(t2) == next_table(m, t2, p2_index(page))
    IN  and_then(and_then(P3of(P4Frame), P2of), P1of)

\* mutant of unmap: the entry is left as it is, only the TLB is flushed
unmap_flush_only(before, page) ==
    Bind(before, LAMBDA s :
    Bind(translate(s.mem, start_address(page)), LAMBDA t :
    Bind(level1_table(s.mem, page), LAMBDA p1 :
        IF t.tag = "Panic" THEN Halt(s, t.msg)
        ELSE IF ~is_some(t) THEN Halt(s, "unmap: page not mapped")
        ELSE IF ~is_some(p1)
        THEN Halt(s, "mapping code does not support huge pages")
        ELSE IF ~is_some(Entry_pointed_frame(EntryAt(s.mem, p1.v, p1_index(page))))
        THEN Halt(s, "unwrap on None")
        ELSE [s EXCEPT !.tlb = Append(@, start_address(page))])))

\* mutant of unmap: the TLB is flushed before the page is checked
unmap_flush_first(before, page) ==
    Bind(before, LAMBDA s :
    Bind([s EXCEPT !.tlb = Append(@, start_address(page))], LAMBDA flushed :
    Bind(translate(s.mem, start_address(page)), LAMBDA t :
    Bind(level1_table(s.mem, page), LAMBDA p1 :
        IF t.tag = "Panic" THEN Halt(flushed, t.msg)
        ELSE IF ~is_some(t) THEN Halt(flushed, "unmap: page not mapped")
        ELSE IF ~is_some(p1)
        THEN Halt(flushed, "mapping code does not support huge pages")
        ELSE IF ~is_some(Entry_pointed_frame(EntryAt(s.mem, p1.v, p1_index(page))))
        THEN Halt(flushed, "unwrap on None")
        ELSE [flushed EXCEPT !.mem = WriteEntry(@, p1.v, p1_index(page),
                                                Entry_set_unused)]))))

\* mutant of unmap: a level-1 table left empty is taken out of its level-2
\* table
unmap_free_empty(before, page) ==
    Bind(before, LAMBDA s :
    Bind(translate(s.mem, start_address(page)), LAMBDA t :
    Bind(level1_table(s.mem, page), LAMBDA p1 :
        IF t.tag = "Panic" THEN Halt(s, t.msg)
        ELSE IF ~is_some(t) THEN Halt(s, "unmap: page not mapped")
        ELSE IF ~is_some(p1)
        THEN Halt(s, "mapping code does not support huge pages")
        ELSE IF ~is_some(Entry_pointed_frame(EntryAt(s.mem, p1.v, p1_index(page))))
        THEN Halt(s, "unwrap on None")
        ELSE
          Bind(WriteEntry(s.mem, p1.v, p1_index(page), Entry_set_unused),
               LAMBDA cleared :
          Bind(next_table(s.mem, next_table(s.mem, P4Frame, p4_index(page)).v,
                          p3_index(page)).v, LAMBDA p2 :
            [s EXCEPT !.mem = IF TableAt(cleared, p1.v) = EmptyTable
                              THEN WriteEntry(cleared, p2, p2_index(page),
                                              Entry_set_unused)
                              ELSE cleared,
                      !.tlb = Append(@, start_address(page))])))))

\* mutant of unmap_set_unused: the entry loses PRESENT and keeps its other
\* bits
unmap_clear_present(before, page) ==
    Bind(before, LAMBDA s :
    Bind(translate(s.mem, start_address(page)), LAMBDA t :
    Bind(level1_table(s.mem, page), LAMBDA p1 :
        IF t.tag = "Panic" THEN Halt(s, t.msg)
        ELSE IF ~is_some(t) THEN Halt(s, "unmap: page not mapped")
        ELSE IF ~is_some(p1)
        THEN Halt(s, "mapping code does not support huge pages")
        ELSE IF ~is_some(Entry_pointed_frame(EntryAt(s.mem, p1.v, p1_index(page))))
        THEN Halt(s, "unwrap on None")
        ELSE [s EXCEPT !.mem =
                 WriteEntry(@, p1.v, p1_index(page),
                            Sub(EntryAt(s.mem, p1.v, p1_index(page)), PRESENT))])))

\* ActivePageTable::unmap up to and including set_unused
unmap_set_unused(before, page) ==
    Bind(before, LAMBDA s :
    Bind(translate(s.mem, start_address(page)), LAMBDA t :
    Bind(level1_table(s.mem, page), LAMBDA p1 :
        IF t.tag = "Panic" THEN Halt(s, t.msg)
        ELSE IF ~is_some(t) THEN Halt(s, "unmap: page not mapped")
        ELSE IF ~is_some(p1)
        THEN Halt(s, "mapping code does not support huge pages")
        ELSE IF ~is_some(Entry_pointed_frame(EntryAt(s.mem, p1.v, p1_index(page))))
        THEN Halt(s, "unwrap on None")
        ELSE [s EXCEPT !.mem = WriteEntry(@, p1.v, p1_index(page),
                                          Entry_set_unused)])))

\* mutant of tlb_flush: the page number is flushed, not the start address
tlb_flush_number(s, page) == [s EXCEPT !.tlb = Append(@, page.number)]

\* the end of ActivePageTable::unmap:
\* tlb::flush(VirtualAddress(page.start_address()))
tlb_flush(s, page) == [s EXCEPT !.tlb = Append(@, start_address(page))]

\* ActivePageTable::unmap
unmap(before, page) ==
    Bind(unmap_set_unused(before, page), LAMBDA s :
        IF Running(s) THEN tlb_flush(s, page) ELSE s)

(***************************************************************************)
(* State                                                                   *)
(***************************************************************************)
VARIABLES
    boot_info,  \* the decoded boot information rust_main was started with
    mem,        \* physical memory: frame number -> table
    allocator,  \* the AreaFrameAllocator built by rust_main
    tlb,        \* addresses flushed by tlb::flush, in order
    handed,     \* frames returned by allocate_frame, in order
    panic,      \* "none", or the panic message the kernel halted with
    last,       \* the last call: its name, arguments and result
    calls       \* number of calls made so far

vars == <<boot_info, mem, allocator, tlb, handed, panic, last, calls>>

\* the machine state the operations above work on
Machine ==
    [mem |-> mem, allocator |-> allocator, tlb |-> tlb, handed |-> handed,
     panic |-> panic]

Become(s) ==
    /\ mem' = s.mem
    /\ allocator' = s.allocator
    /\ tlb' = s.tlb
    /\ handed' = s.handed
    /\ panic' = s.panic

\* rust_main up to the construction of frame_allocator
boot_allocator(info) ==
    AreaFrameAllocator_new(kernel_start(info), kernel_end(info),
                           multiboot_start(info), multiboot_end(info),
                           info.memory_areas)

(***************************************************************************)
(* Bounds and the inputs drawn within them                                 *)
(***************************************************************************)
\* the address with the given four table indices and a zero page offset,
\* sign-extended from bit 47
IndexAddress(i4, i3, i2, i1) ==
    LET top == IF i4 >= ENTRY_COUNT \div 2 THEN \hffff * ENTRY_COUNT + i4 ELSE i4
    IN  MulSmall(
          Add(MulSmall(
                Add(MulSmall(
                      Add(MulSmall(W(top), ENTRY_COUNT), W(i3)),
                      ENTRY_COUNT), W(i2)),
                ENTRY_COUNT), W(i1)),
          PAGE_SIZE)

\* frame n of physical memory, byte address n * PAGE_SIZE
FrameNo(n) == [number |-> W(n)]

\* the address used by test_paging: 42 * 512 * 512 * 4096
TestAddress == IndexAddress(0, 42, 0, 0)

\* pages the calls are made on: test_paging's page, a page in the same
\* level-1 table, the pages of the recursive slot whose level-1 tables are
\* the level-4 table and the level-3 table of index 0, a page in another
\* level-1 table
PageChoices ==
    <<Page_containing_address(TestAddress),
      Page_containing_address(IndexAddress(511, 511, 511, 0)),
      Page_containing_address(IndexAddress(0, 42, 0, 1)),
      Page_containing_address(IndexAddress(511, 511, 0, 42)),
      Page_containing_address(IndexAddress(0, 42, 1, 0))>>

NumPages == 3

Pages == {PageChoices[i] : i \in 1..(IF NumPages < Len(PageChoices)
                                      THEN NumPages ELSE Len(PageChoices))}


\* frames the caller passes to map_to and identity_map: test_paging's
\* frame 42 * 512 * 512, a frame of the kernel image (which the allocator
\* never hands out), and the frame at physical address 2^47, which has no
\* canonical same-numbered page
FrameChoices ==
    <<Frame_containing_address(TestAddress),
      FrameNo(1),
      [number |-> Hex4(\h0000, \h0000, \h0008, \h0000)]>>

NumFrames == 2

Frames == {FrameChoices[i] : i \in 1..(IF NumFrames < Len(FrameChoices)
                                       THEN NumFrames ELSE Len(FrameChoices))}

FlagChoices ==
    <<EntryFlags_empty, HUGE_PAGE, OrW(WRITABLE, NO_EXECUTE), WRITABLE>>

NumFlags == 2

FlagSets == {FlagChoices[i] : i \in 1..(IF NumFlags < Len(FlagChoices)
                                        THEN NumFlags ELSE Len(FlagChoices))}

\* page offsets the translations are taken at
Offsets == {0, 1, PAGE_SIZE \div 2, PAGE_SIZE - 1}

\* number of frames the allocator can hand out in the paging runs
PoolFrames == 5

\* most calls of a run
MaxCalls == 3

\* the boot information of the paging runs: the kernel image in frames 1..4
\* (it holds the boot page tables), the boot information blob in frame 5,
\* and one usable area from address 0
PagingBoot ==
    [sections |-> {[addr |-> W(1 * PAGE_SIZE), size |-> W(PAGE_SIZE)],
                   [addr |-> W(2 * PAGE_SIZE), size |-> W(2 * PAGE_SIZE + 512)]},
     multiboot_information_address |-> W(5 * PAGE_SIZE),
     total_size |-> W(1024),
     memory_areas |-> <<[base_addr |-> Zero,
                         length |-> W((PoolFrames + 5) * PAGE_SIZE)]>>]

\* the recursive entry: the last entry of the level-4 table points to the
\* level-4 table itself
RecursiveEntry == Entry_set(P4Frame, OrW(PRESENT, WRITABLE))

\* the level-4 table with nothing but the recursive entry
BareTables == [n \in {P4Frame.number} |-> [i \in {ENTRY_COUNT - 1} |-> RecursiveEntry]]

\* the tables of the boot code: level-4 entry 0 -> level-3 table in frame 3,
\* whose entry 0 -> level-2 table in frame 4, which identity-maps the first
\* 4 MiB with two 2 MiB huge pages
BootTables ==
    LET huge == OrW(OrW(PRESENT, WRITABLE), HUGE_PAGE)
    IN  WriteEntry(
          WriteEntry(
            WriteEntry(
              WriteEntry(BareTables, P4Frame, 0,
                         Entry_set(FrameNo(3), OrW(PRESENT, WRITABLE))),
              FrameNo(3), 0, Entry_set(FrameNo(4), OrW(PRESENT, WRITABLE))),
            FrameNo(4), 0, Entry_set(FrameNo(0), huge)),
          FrameNo(4), 1, Entry_set(FrameNo(ENTRY_COUNT), huge))

\* what a frame that was never written as a table may hold: leftover bytes
\* that read as entries, present ones and one that is used but not present
\* (here: frames 0, 1 and 7 and test_paging's frame), or nothing (the other
\* frames)
AllOnes == Hex4(\hffff, \hffff, \hffff, \hffff)

JunkTable ==
    [i \in {0, 1, 2, 42} |->
        IF i = 1 THEN Entry_set(FrameNo(1), PRESENT)
        ELSE IF i = 2 THEN Entry_set(FrameNo(1), WRITABLE)
        ELSE AllOnes]

JunkFrames ==
    {FrameNo(0), FrameNo(1), FrameNo(7), Frame_containing_address(TestAddress)}

WithLeftover(m) ==
    [n \in DOMAIN m \cup {f.number : f \in JunkFrames} |->
        IF n \in DOMAIN m THEN m[n] ELSE JunkTable]

NoCall == [op |-> "none"]

InitMachine(info, tables) ==
    /\ boot_info = info
    /\ mem = tables
    /\ allocator = boot_allocator(info)
    /\ tlb = <<>>
    /\ handed = <<>>
    /\ panic = "none"
    /\ last = NoCall
    /\ calls = 0

\* the state when test_paging starts: rust_main has built the allocator and
\* the boot page tables are active
Init ==
    \E tables \in {BareTables, BootTables} :
        InitMachine(PagingBoot, WithLeftover(tables))

(***************************************************************************)
(* Actions: one per call made on the page table or the allocator.  A call  *)
(* is made only while the kernel runs; after a panic nothing happens.      *)
(***************************************************************************)
\* a call of the paging runs: the kernel has not panicked, and the run is
\* not over
Call ==
    /\ panic = "none"
    /\ calls < MaxCalls
    /\ calls' = calls + 1
    /\ UNCHANGED boot_info

\* page_table.map_to(page, frame, flags, allocator)
MapTo(page, frame, flags) ==
    /\ Call
    /\ \E s \in {map_to(Machine, page, frame, flags)} : Become(s)
    /\ last' = [op |-> "map_to", page |-> page, frame |-> frame,
                flags |-> flags,
                before |-> translate(mem, start_address(page))]

\* page_table.map(page, flags, allocator)
Map(page, flags) ==
    /\ Call
    /\ \E s \in {map(Machine, page, flags)} : Become(s)
    /\ last' = [op |-> "map", page |-> page,
                frame |-> call_allocate_frame(Machine).frame,
                flags |-> flags,
                before |-> translate(mem, start_address(page))]

\* page_table.identity_map(frame, flags, allocator)
IdentityMap(frame, flags) ==
    /\ Call
    /\ \E s \in {identity_map(Machine, frame, flags)} : Become(s)
    /\ last' = [op |-> "identity_map", frame |-> frame, flags |-> flags,
                before |-> translate(mem, Frame_start_address(frame))]

\* page_table.unmap(page, allocator)
Unmap(page) ==
    /\ Call
    /\ \E s \in {unmap(Machine, page)} : Become(s)
    /\ last' = [op |-> "unmap", page |-> page,
                before |-> translate(mem, start_address(page))]

\* page_table.translate(virtual_address)
Translate(virtual_address) ==
    /\ Call
    /\ \E r \in {translate(mem, virtual_address)} :
          /\ last' = [op |-> "translate", address |-> virtual_address,
                      result |-> r]
          /\ panic' = IF r.tag = "Panic" THEN r.msg ELSE panic
    /\ UNCHANGED <<mem, allocator, tlb, handed>>

\* allocator.allocate_frame()
AllocateFrame ==
    /\ panic = "none"
    /\ \E r \in {call_allocate_frame(Machine)} :
          /\ Become(r.s)
          /\ last' = [op |-> "allocate_frame", result |-> r.frame]
    /\ UNCHANGED boot_info

\* the allocate_frame calls of test_paging
TestAllocate ==
    /\ calls < MaxCalls
    /\ calls' = calls + 1
    /\ AllocateFrame

\* the addresses translate is called on: test_paging's address, and the
\* last byte of the page of the recursive slot
TranslateAddresses ==
    {TestAddress, Add(IndexAddress(511, 511, 511, 0), W(PAGE_SIZE - 1))}

Next ==
    \/ \E page \in Pages, frame \in Frames, flags \in FlagSets :
          MapTo(page, frame, flags)
    \/ \E page \in Pages, flags \in FlagSets : Map(page, flags)
    \/ \E frame \in Frames, flags \in FlagSets : IdentityMap(frame, flags)
    \/ \E page \in Pages : Unmap(page)
    \/ \E address \in TranslateAddresses : Translate(address)
    \/ TestAllocate

\* test_paging and the other paging calls, in any order, on the boot tables
Spec == Init /\ [][Next]_vars

(***************************************************************************)
(* The allocator on its own: rust_main builds it from any boot             *)
(* information within the bounds, then allocate_frame is called again and  *)
(* again (the commented-out loop of rust_main).                            *)
(***************************************************************************)
\* physical memory of the allocator runs has frames 0 .. MemFrames - 1
MemFrames == 6

\* most usable areas, and most frames of one area
MaxAreas == 2
MaxAreaFrames == 2

AreaOf(first, n) ==
    [base_addr |-> W(first * PAGE_SIZE), length |-> W(n * PAGE_SIZE)]

AreaChoices ==
    {AreaOf(first, n) : first \in 0..(MemFrames - 1), n \in 1..MaxAreaFrames}

Overlap(x, y) ==
    /\ Lt(x.base_addr, Add(y.base_addr, y.length))
    /\ Lt(y.base_addr, Add(x.base_addr, x.length))

\* the memory maps: up to MaxAreas areas that do not overlap, in any order
RECURSIVE AreaLists(_)
AreaLists(n) ==
    IF n = 0 THEN {<<>>}
    ELSE AreaLists(n - 1) \cup
         {Append(l, x) : l \in {m \in AreaLists(n - 1) : Len(m) = n - 1},
                         x \in AreaChoices} 

MemoryMaps ==
    {l \in AreaLists(MaxAreas) :
        /\ Len(l) >= 1
        /\ \A i, j \in 1..Len(l) : i # j => ~Overlap(l[i], l[j])
        /\ \A i \in 1..Len(l) :
              Le(Add(l[i].base_addr, l[i].length), W(MemFrames * PAGE_SIZE))}

Section(addr, size) == [addr |-> W(addr), size |-> W(size)]

\* the kernel images: one or two ELF sections, ending inside a frame or on
\* a frame boundary
KernelChoices ==
    {{Section(PAGE_SIZE, PAGE_SIZE \div 2)},
     {Section(PAGE_SIZE, PAGE_SIZE)},
     {Section(PAGE_SIZE + 1024, 512), Section(3 * PAGE_SIZE, 564)},
     {Section(0, 2 * PAGE_SIZE + 1)},
     {Section(4 * PAGE_SIZE + 8, 2 * PAGE_SIZE)}}

\* the boot information blobs: <<address, total_size>>
MultibootChoices ==
    {<<4 * PAGE_SIZE, 256>>, <<3 * PAGE_SIZE - 8, 16>>,
     <<2 * PAGE_SIZE, PAGE_SIZE>>, <<0, 8>>}

BootInfos ==
    {[sections |-> k,
      multiboot_information_address |-> W(b[1]),
      total_size |-> W(b[2]),
      memory_areas |-> l] :
        k \in KernelChoices, b \in MultibootChoices, l \in MemoryMaps}

AllocInit == \E info \in BootInfos : InitMachine(info, BareTables)

AllocNext == AllocateFrame /\ UNCHANGED calls

AllocSpec == AllocInit /\ [][AllocNext]_vars

\* the end-to-end scenario: one usable area [0x100000, 0x200000), the
\* kernel image at [0x150000, 0x160000), the boot information below both
ScenarioBoot ==
    [sections |-> {Section(\h150000, \h160000 - \h150000)},
     multiboot_information_address |-> W(\h9000),
     total_size |-> W(1024),
     memory_areas |-> <<[base_addr |-> W(\h100000),
                         length |-> W(\h200000 - \h100000)]>>]

ScenarioInit == InitMachine(ScenarioBoot, BareTables)

ScenarioSpec == ScenarioInit /\ [][AllocNext]_vars

(***************************************************************************)
(* Properties of the allocator                                             *)
(***************************************************************************)
\* allocate_frame has just returned None
Exhausted == last = [op |-> "allocate_frame", result |-> None]

\* the frame holding a byte address, by the definition of a frame: the
\* frame number n with n * 4096 <= address < (n + 1) * 4096
FrameHolding(address) ==
    CHOOSE n \in {DivSmall(address, PAGE_SIZE)} :
        /\ Le(MulSmall(n, PAGE_SIZE), address)
        /\ Lt(Sub(address, MulSmall(n, PAGE_SIZE)), W(PAGE_SIZE))

\* frame number n lies in the inclusive frame range of the kernel image:
\* from the frame of the lowest section start to the frame holding the
\* highest section end address
InKernelRange(n) ==
    \E s1, s2 \in boot_info.sections :
        /\ Le(FrameHolding(s1.addr), n)
        /\ Le(n, FrameHolding(Add(s2.addr, s2.size)))

\* frame number n lies in the inclusive frame range of the boot information
InBootInfoRange(n) ==
    /\ Le(FrameHolding(boot_info.multiboot_information_address), n)
    /\ Le(n, FrameHolding(Add(boot_info.multiboot_information_address,
                             boot_info.total_size)))

\* frame number n lies in usable area i of the memory map
InArea(n, i) ==
    LET area == boot_info.memory_areas[i]
    IN  /\ Le(FrameHolding(area.base_addr), n)
        /\ Lt(MulSmall(n, PAGE_SIZE), Add(area.base_addr, area.length))

\* C5: allocate_frame never returns a frame whose number lies in the
\* inclusive kernel frame range or in the inclusive boot-information frame
\* range (each range ends with the frame holding the end address), whatever
\* the usable areas and the reserved ranges are and however many calls were
\* made.
C5_NeverReserved ==
    \A i \in 1..Len(handed) :
        /\ ~InKernelRange(handed[i].number)
        /\ ~InBootInfoRange(handed[i].number)

\* C5 witness: two usable areas, a kernel range that holds frames of both
\* areas, and frames handed out of both areas
C5_Witness ==
    /\ Len(boot_info.memory_areas) = 2
    /\ \A i \in 1..2 : \E n \in {W(k) : k \in 0..MemFrames} :
          InArea(n, i) /\ InKernelRange(n)
    /\ \A i \in 1..2 : \E j \in 1..Len(handed) : InArea(handed[j].number, i)

\* C6: the frames returned by successive allocate_frame calls have strictly
\* increasing frame numbers, also when the areas are not sorted by address.
C6_StrictlyIncreasing ==
    \A i, j \in 1..Len(handed) :
        i < j => Lt(handed[i].number, handed[j].number)

\* C6 witness: the second area of the memory map lies below the first, and
\* frames of both were handed out
C6_Witness ==
    /\ Len(boot_info.memory_areas) = 2
    /\ Lt(boot_info.memory_areas[2].base_addr, boot_info.memory_areas[1].base_addr)
    /\ \A i \in 1..2 : \E j \in 1..Len(handed) : InArea(handed[j].number, i)

\* the usable frames that are not reserved: all that can ever be handed out
UsableFrames ==
    {n \in {W(k) : k \in 0..MemFrames} :
        /\ \E i \in 1..Len(boot_info.memory_areas) : InArea(n, i)
        /\ ~InKernelRange(n)
        /\ ~InBootInfoRange(n)}

\* C7: every allocate_frame call terminates (its cursor loop never runs on:
\* it ends within MaxRounds rounds), and only finitely many calls return a
\* frame: every frame returned is one of the finitely many usable
\* non-reserved frames, none is returned twice, and once all of them have
\* been handed out allocate_frame returns None.
C7_TerminatesAndExhausts ==
    /\ panic # "allocate_frame loops"
    /\ \A i \in 1..Len(handed) : handed[i].number \in UsableFrames
    /\ \A i, j \in 1..Len(handed) : i # j => handed[i] # handed[j]
    /\ UsableFrames \subseteq {handed[i].number : i \in 1..Len(handed)}
          => /\ allocate_frame(allocator).done
             /\ allocate_frame(allocator).frame = None

\* C7 witness: allocate_frame returned None after every usable frame of two
\* areas around a reserved range was handed out
C7_Witness ==
    /\ Exhausted
    /\ Len(boot_info.memory_areas) = 2
    /\ \A i \in 1..2 : \E j \in 1..Len(handed) : InArea(handed[j].number, i)
    /\ \E n \in {W(k) : k \in 0..MemFrames} :
          /\ \E i \in 1..2 : InArea(n, i)
          /\ InKernelRange(n) \/ InBootInfoRange(n)
    /\ UsableFrames = {handed[i].number : i \in 1..Len(handed)}

\* C8 (as claimed): in the scenario the first frame returned has address
\* 0x100000, no returned frame has an address in [0x150000, 0x160000), and
\* the number of frames returned before the first None is
\* (0x200000 - 0x100000) / 4096 - (0x160000 - 0x150000) / 4096 = 240.
C8_ScenarioAsClaimed ==
    /\ Len(handed) >= 1 => Frame_start_address(handed[1]) = W(\h100000)
    /\ \A i \in 1..Len(handed) :
          ~ /\ Le(W(\h150000), Frame_start_address(handed[i]))
            /\ Lt(Frame_start_address(handed[i]), W(\h160000))
    /\ Exhausted =>
          Len(handed) = (\h200000 - \h100000) \div PAGE_SIZE
                          - (\h160000 - \h150000) \div PAGE_SIZE

(***************************************************************************)
(* Page on its own: Page::containing_address and the accessors, applied to *)
(* addresses from all over the 64-bit address space.                       *)
(***************************************************************************)
\* the 16-bit values the limbs of the addresses are drawn from
LimbChoices == {\h0000, \h0001, \h0fff, \h1000, \h7fff, \h8000, \hffff}

Addresses == {<<a, b, c, d>> : a \in LimbChoices, b \in LimbChoices,
                               c \in LimbChoices, d \in LimbChoices}

PageInit ==
    /\ \E address \in Addresses : last = [op |-> "address", address |-> address]
    /\ boot_info = PagingBoot
    /\ mem = BareTables
    /\ allocator = boot_allocator(PagingBoot)
    /\ tlb = <<>>
    /\ handed = <<>>
    /\ panic = "none"
    /\ calls = 0

\* Page::containing_address(address), then every accessor of the page
ContainingAddress ==
    /\ last.op = "address"
    /\ IF CanonicalAddress(last.address)
       THEN LET page == Page_containing_address(last.address)
            IN  /\ last' = [op |-> "containing_address",
                            address |-> last.address,
                            page |-> page,
                            start_address |-> start_address(page),
                            p4_index |-> p4_index(page),
                            p3_index |-> p3_index(page),
                            p2_index |-> p2_index(page),
                            p1_index |-> p1_index(page)]
                /\ panic' = panic
       ELSE /\ last' = [op |-> "containing_address", address |-> last.address]
            /\ panic' = "invalid address"
    /\ UNCHANGED <<boot_info, mem, allocator, tlb, handed, calls>>

\* translate(address) on the tables of the boot code
TranslateAddress ==
    /\ last.op = "address"
    /\ \E r \in {translate(mem, last.address)} :
          /\ last' = [op |-> "translate", address |-> last.address,
                      result |-> r]
          /\ panic' = IF r.tag = "Panic" THEN r.msg ELSE panic
    /\ UNCHANGED <<boot_info, mem, allocator, tlb, handed, calls>>

PageNext == ContainingAddress \/ TranslateAddress

PageSpec == PageInit /\ [][PageNext]_vars

\* an address of the canonical range: below 2^47, or from
\* 0xffff_8000_0000_0000 up (bits 47..63 all equal)
InCanonicalRange(address) ==
    \/ \A i \in 47..63 : Bit(address, i) = 0
    \/ \A i \in 47..63 : Bit(address, i) = 1

\* bits lo .. lo + 8 of a word, as a number
RECURSIVE BitsFrom(_, _, _)
BitsFrom(w, lo, n) ==
    IF n = 0 THEN 0 ELSE Bit(w, lo) + 2 * BitsFrom(w, lo + 1, n - 1)

\* r is the address rounded down to a multiple of 4096
RoundedDown(address, r) ==
    /\ Le(r, address)
    /\ Lt(Sub(address, r), W(PAGE_SIZE))
    /\ r[1] % PAGE_SIZE = 0

\* C10: for every address a of the canonical range, Page::containing_address
\* gives a page whose start_address is a rounded down to a multiple of 4096,
\* and p4_index, p3_index, p2_index, p1_index are bits 27-35, 18-26, 9-17
\* and 0-8 of the page number, each in 0..511.
C10_PageRoundTrip ==
    (last.op = "containing_address" /\ InCanonicalRange(last.address)) =>
        /\ panic = "none"
        /\ RoundedDown(last.address, last.start_address)
        /\ last.p4_index = BitsFrom(last.page.number, 27, 9)
        /\ last.p3_index = BitsFrom(last.page.number, 18, 9)
        /\ last.p2_index = BitsFrom(last.page.number, 9, 9)
        /\ last.p1_index = BitsFrom(last.page.number, 0, 9)
        /\ \A x \in {last.p4_index, last.p3_index, last.p2_index, last.p1_index} :
              x \in 0..(ENTRY_COUNT - 1)

\* C10 witness: a page of the upper half, off the page boundary, with four
\* different nonzero indices
C10_Witness ==
    /\ last.op = "containing_address"
    /\ panic = "none"
    /\ Bit(last.address, 63) = 1
    /\ last.start_address # last.address
    /\ Cardinality({0, last.p4_index, last.p3_index, last.p2_index,
                    last.p1_index}) = 5

(***************************************************************************)
(* Properties of the paging runs                                           *)
(***************************************************************************)
\* the level-1 entry of a page: Some(entry) when the three tables above it
\* exist, None otherwise
level1_entry(m, page) ==
    Bind(level1_table(m, page), LAMBDA p1 :
        IF is_some(p1) THEN Some(EntryAt(m, p1.v, p1_index(page))) ELSE None)

\* the page has a level-1 entry, and it is not unused
level1_used(m, page) ==
    /\ is_some(level1_entry(m, page))
    /\ ~Entry_is_unused(level1_entry(m, page).v)

\* every offset k of the page at address from translates to k past to
TranslatesTo(from, to) ==
    \A k \in Offsets :
        translate(mem, Add(from, W(k))) = Some(Add(to, W(k)))

\* C1: after map_to(p, f, flags) completes, translate(p.start_address() + k)
\* is Some(f.start_address() + k) for the offsets k of the page, whatever
\* tables existed before the call.
C1_MapToThenTranslate ==
    (last.op = "map_to" /\ panic = "none") =>
        TranslatesTo(start_address(last.page), Frame_start_address(last.frame))

\* C1 witness: map_to completed on a page that did not translate before,
\* and the allocator supplied tables for it
C1_Witness ==
    /\ last.op = "map_to"
    /\ panic = "none"
    /\ last.before = None
    /\ Len(handed) >= 3
    /\ TranslatesTo(start_address(last.page), Frame_start_address(last.frame))

\* C2: a step map_to(p, f2, flags) on a page whose level-1 entry is not
\* unused panics with the already-mapped message and changes no table: the
\* level-1 entry of p and the translation of p.start_address() stay as they
\* were.
C2_MapToMappedPanics ==
    [][(last'.op = "map_to" /\ level1_used(mem, last'.page)) =>
          /\ panic' = "map_to: page already mapped"
          /\ mem' = mem
          /\ level1_entry(mem', last'.page) = level1_entry(mem, last'.page)
          /\ translate(mem', start_address(last'.page)) =
                translate(mem, start_address(last'.page))]_vars

\* C2 witness: map_to panicked on a mapped page, called with another frame
\* than the one the page is mapped to
C2_Witness ==
    /\ last.op = "map_to"
    /\ panic = "map_to: page already mapped"
    /\ is_some(last.before)
    /\ last.before # Some(Frame_start_address(last.frame))
    /\ translate(mem, start_address(last.page)) = last.before

\* C3: after unmap(p) completes, translate(p.start_address()) is None.
C3_UnmapThenAbsent ==
    (last.op = "unmap" /\ panic = "none") =>
        translate(mem, start_address(last.page)) = None

\* C3 witness: unmap completed on a page that translated before
C3_Witness ==
    /\ last.op = "unmap"
    /\ panic = "none"
    /\ is_some(last.before)
    /\ Len(tlb) >= 1
    /\ translate(mem, start_address(last.page)) = None

\* C4: a step unmap(p) on a page whose start address does not translate
\* panics, with no table entry changed and no TLB flush issued.
C4_UnmapUnmappedPanics ==
    [][(last'.op = "unmap" /\ translate(mem, start_address(last'.page)) = None) =>
          /\ panic' = "unmap: page not mapped"
          /\ mem' = mem
          /\ tlb' = tlb]_vars

\* C4 witness: unmap panicked on a page that did not translate, after
\* another page was mapped
C4_Witness ==
    /\ last.op = "unmap"
    /\ panic = "unmap: page not mapped"
    /\ last.before = None
    /\ tlb = <<>>
    /\ calls >= 2

\* C9: the address 42 * 512 * 512 * 4096 does not translate when test_paging
\* starts; and after identity_map(f, flags) completes on a frame whose start
\* address did not translate, translate(f.start_address() + k) is
\* Some(f.start_address() + k) for the offsets k of the page.
C9_IdentityMap ==
    /\ calls = 0 => translate(mem, TestAddress) = None
    /\ (last.op = "identity_map" /\ panic = "none" /\ last.before = None) =>
          TranslatesTo(Frame_start_address(last.frame),
                       Frame_start_address(last.frame))

\* C9 witness: identity_map completed on the frame at 42 * 512 * 512 * 4096
C9_Witness ==
    /\ last.op = "identity_map"
    /\ panic = "none"
    /\ last.before = None
    /\ last.frame = Frame_containing_address(TestAddress)
    /\ translate(mem, TestAddress) = Some(TestAddress)

(***************************************************************************)
(* Non-canonical addresses                                                 *)
(***************************************************************************)
\* the last address of the lower half and the first of the upper half
LastLowAddress == Hex4(\h0000, \h7fff, \hffff, \hffff)
FirstHighAddress == Hex4(\hffff, \h8000, \h0000, \h0000)

\* C11: for an address of the gap 2^47 <= a < 0xffff_8000_0000_0000,
\* Page::containing_address panics with the invalid-address message and
\* gives no Page, and translate panics instead of returning None; the
\* addresses 2^47 - 1 and 0xffff_8000_0000_0000 are accepted by both.
C11_NonCanonicalFatal ==
    /\ (last.op \in {"containing_address", "translate"}
          /\ ~InCanonicalRange(last.address)) =>
          /\ panic = "invalid address"
          /\ "page" \notin DOMAIN last
          /\ last.op = "translate" => last.result = Panic("invalid address")
    /\ (last.op \in {"containing_address", "translate"}
          /\ last.address \in {LastLowAddress, FirstHighAddress}) =>
          /\ panic = "none"
          /\ last.op = "containing_address" => "page" \in DOMAIN last
          /\ last.op = "translate" => last.result = None

\* C11 witness: translate panicked on the first address of the gap
C11_Witness ==
    /\ last.op = "translate"
    /\ last.address = Hex4(\h0000, \h8000, \h0000, \h0000)
    /\ panic = "invalid address"

(***************************************************************************)
(* Effects of unmap and map_to on the allocator, the tables and the TLB    *)
(***************************************************************************)
\* the level-3, level-2 and level-1 tables on the path of a page, each
\* Some(frame) or None
table_path(m, page) ==
    Bind(next_table(m, P4Frame, p4_index(page)), LAMBDA p3 :
    Bind(IF is_some(p3) THEN next_table(m, p3.v, p3_index(page)) ELSE None,
         LAMBDA p2 :
    Bind(IF is_some(p2) THEN next_table(m, p2.v, p2_index(page)) ELSE None,
         LAMBDA p1 : <<p3, p2, p1>>)))

EntryCleared == "unmap: entry cleared"

\* unmap(page) from its start to set_unused
UnmapSetUnused(page) ==
    /\ Call
    /\ last.op # EntryCleared
    /\ \E s \in {unmap_set_unused(Machine, page)} :
          /\ Become(s)
          /\ last' = [op |-> IF Running(s) THEN EntryCleared ELSE "unmap",
                      page |-> page,
                      before |-> translate(mem, start_address(page))]

\* unmap(page) from tlb::flush to its return
UnmapFlush ==
    /\ last.op = EntryCleared
    /\ \E s \in {tlb_flush(Machine, last.page)} : Become(s)
    /\ last' = [last EXCEPT !.op = "unmap"]
    /\ UNCHANGED <<boot_info, calls>>

StepNext ==
    \/ /\ last.op # EntryCleared
       /\ \/ \E page \in Pages, frame \in Frames, flags \in FlagSets :
                MapTo(page, frame, flags)
          \/ \E page \in Pages, flags \in FlagSets : Map(page, flags)
          \/ \E frame \in Frames, flags \in FlagSets : IdentityMap(frame, flags)
          \/ \E address \in TranslateAddresses : Translate(address)
          \/ TestAllocate
    \/ \E page \in Pages : UnmapSetUnused(page)
    \/ UnmapFlush

StepSpec == Init /\ [][StepNext]_vars

\* C14: the TLB is flushed only by unmap, after it cleared the level-1 entry
\* of its page: the flush is of exactly the start address of that page, it
\* is the next thing to happen once the entry is cleared, and every unmap
\* that returns has issued it; map_to, map and identity_map flush nothing.
C14_FlushAfterClear ==
    [][/\ tlb' # tlb =>
            /\ last.op = EntryCleared
            /\ ~level1_used(mem, last.page)
            /\ tlb' = Append(tlb, start_address(last.page))
       /\ last.op = EntryCleared =>
            /\ last'.op = "unmap"
            /\ last'.page = last.page
            /\ mem' = mem
            /\ tlb' = Append(tlb, start_address(last.page))
       /\ (last'.op = "unmap" /\ panic' = "none") =>
            /\ last.op = EntryCleared
            /\ tlb' # tlb
       /\ last'.op \in {"map_to", "map", "identity_map"} => tlb' = tlb]_vars

\* C14 witness: an unmap returned after a page was mapped again and unmapped
\* again: two flushes of the same address
C14_Witness ==
    /\ last.op = "unmap"
    /\ panic = "none"
    /\ Len(tlb) = 2
    /\ tlb[1] = tlb[2]
    /\ tlb[2] = start_address(last.page)

(***************************************************************************)
(* Tables created by map_to                                                *)
(***************************************************************************)
\* the page a mapping call works on
op_page(call) ==
    IF call.op = "identity_map"
    THEN Page_containing_address(Frame_start_address(call.frame))
    ELSE call.page

\* the page with the given four indices
IndexPage(i4, i3, i2, i1) == Page_containing_address(IndexAddress(i4, i3, i2, i1))

\* indices the neighbours of a page are taken at: those where a frame never
\* written as a table holds leftover entries
ProbeIndices == {i \in DOMAIN JunkTable : contains(JunkTable[i], PRESENT)}

\* pages that share the level-3 table of a page, some also its level-2 and
\* level-1 table
Neighbours(page) ==
    {IndexPage(p4_index(page), i3, i2, i1) :
        i3 \in ProbeIndices \cup {p3_index(page)},
        i2 \in ProbeIndices \cup {p2_index(page)},
        i1 \in ProbeIndices \cup {p1_index(page)}} \ {page}

\* the deepest table two pages of one level-4 entry share: 3, 2 or 1
shared_level(page, q) ==
    IF p3_index(q) # p3_index(page) THEN 3
    ELSE IF p2_index(q) # p2_index(page) THEN 2
    ELSE 1

\* the index of a page into its table of the given level
index_at(page, level) ==
    IF level = 4 THEN p4_index(page)
    ELSE IF level = 3 THEN p3_index(page)
    ELSE IF level = 2 THEN p2_index(page)
    ELSE p1_index(page)

\* the table of the given level on the path of a page, an Option
table_at(m, page, level) ==
    IF level = 4 THEN Some(P4Frame) ELSE table_path(m, page)[4 - level]

\* C15: when a completed map_to (called directly, or by map or identity_map)
\* took frames from the allocator for tables, each new table holds nothing
\* but the one entry on the path of the page, its parent entry points to
\* it with PRESENT | WRITABLE and nothing else, and every neighbour of the
\* page whose deepest table shared with the page is new translates to None.
C15_NewTablesZeroed ==
    [][(last'.op \in {"map_to", "map", "identity_map"} /\ panic' = "none") =>
          \A page \in {op_page(last')} :
          \A tables \in {[level \in 1..4 |-> table_at(mem', page, level)]} :
          \A fresh \in {{handed'[i] : i \in (Len(handed) + 1)..Len(handed')}
                          \ (IF last'.op = "map" THEN {last'.frame.v} ELSE {})} :
              /\ \A level \in 1..3 : tables[level].v \in fresh =>
                    /\ DOMAIN TableAt(mem', tables[level].v)
                          = {index_at(page, level)}
                    /\ EntryAt(mem', tables[level + 1].v, index_at(page, level + 1))
                          = OrW(Frame_start_address(tables[level].v),
                                OrW(PRESENT, WRITABLE))
              /\ \A q \in Neighbours(page) :
                    tables[shared_level(page, q)].v \in fresh =>
                        translate(mem', start_address(q)) = None
              /\ fresh \subseteq {tables[level].v : level \in 1..3}]_vars

\* C15 witness: map_to completed with three new tables, the level-3 and the
\* level-1 table in frames that held leftover entries
C15_Witness ==
    /\ last.op = "map_to"
    /\ panic = "none"
    /\ Len(handed) = 3
    /\ calls = 1
    /\ handed[1] \in JunkFrames
    /\ handed[3] \in JunkFrames
    /\ table_path(mem, last.page) = <<Some(handed[1]), Some(handed[2]), Some(handed[3])>>
    /\ \A q \in Neighbours(last.page) : translate(mem, start_address(q)) = None

(***************************************************************************)
(* Huge pages: entries with HUGE_PAGE in level-3 and level-2 tables, as    *)
(* the boot code installs them and as map_to installs them through the     *)
(* recursive mapping, and translate through them.                          *)
(***************************************************************************)
\* the pages of the recursive slot whose level-1 table is the level-3 table
\* of level-4 entry 0, and the level-2 table of its entry 0
HugePages == {IndexPage(511, 511, 0, 42), IndexPage(511, 0, 0, 2)}

\* start frames of huge pages: 1GiB aligned (test_paging's frame), 2MiB
\* aligned only, and not aligned
HugeFrames ==
    {Frame_containing_address(TestAddress), FrameNo(ENTRY_COUNT), FrameNo(1)}

\* addresses inside the huge pages: under level-3 entry 42, and under the
\* level-2 entries 1 and 2 of level-3 entry 0
HugeAddresses ==
    {Add(IndexAddress(0, i[1], i[2], i1), W(offset)) :
        i \in {<<42, 1>>, <<42, 511>>, <<0, 1>>, <<0, 2>>},
        i1 \in {0, 511}, offset \in {0, PAGE_SIZE - 1}}

HugeNext ==
    \/ \E page \in HugePages, frame \in HugeFrames :
          MapTo(page, frame, HUGE_PAGE)
    \/ \E address \in HugeAddresses : Translate(address)

HugeSpec == Init /\ [][HugeNext]_vars

\* the entry of the level-3 table an address is translated through, Zero
\* where there is no level-3 table
huge_entry3(m, address) ==
    Bind(next_table(m, P4Frame, BitsFrom(address, 39, 9)), LAMBDA p3 :
        IF is_some(p3) THEN EntryAt(m, p3.v, BitsFrom(address, 30, 9)) ELSE Zero)

\* the entry of the level-2 table an address is translated through, Zero
\* where there is no level-2 table
huge_entry2(m, address) ==
    Bind(next_table(m, P4Frame, BitsFrom(address, 39, 9)), LAMBDA p3 :
    Bind(IF is_some(p3) THEN next_table(m, p3.v, BitsFrom(address, 30, 9)) ELSE None,
         LAMBDA p2 :
        IF is_some(p2) THEN EntryAt(m, p2.v, BitsFrom(address, 21, 9)) ELSE Zero))

\* the entry is present and marks a huge page
is_huge(entry) == Bit(entry, 0) = 1 /\ Bit(entry, 7) = 1

\* the frame number in the entry, a word
entry_frame_number(entry) == Shr(AndW(entry, AddressMask), 12)

\* the low n bits of the frame number in the entry are zero
frame_aligned(entry, n) == \A i \in 12..(11 + n) : Bit(entry, i) = 0

\* C16: translate of an address whose level-3 entry is present and huge
\* with a 1GiB-aligned start frame S gives the address of frame
\* S + p2_index * 512 + p1_index plus the page offset; one whose level-2
\* entry is present and huge with a 2MiB-aligned start frame S gives the
\* address of frame S + p1_index plus the page offset.  What the start
\* frame holds makes no difference.
C16_HugeTranslate ==
    last.op = "translate" =>
        \A address \in {last.address} :
        \A e3 \in {huge_entry3(mem, address)} :
        \A e2 \in {huge_entry2(mem, address)} :
            /\ (is_huge(e3) /\ frame_aligned(e3, 18)) =>
                  last.result =
                    Some(Add(MulSmall(Add(entry_frame_number(e3),
                                          W(BitsFrom(address, 21, 9) * 512
                                            + BitsFrom(address, 12, 9))),
                                      4096),
                             W(BitsFrom(address, 0, 12))))
            /\ (is_huge(e2) /\ frame_aligned(e2, 9)) =>
                  last.result =
                    Some(Add(MulSmall(Add(entry_frame_number(e2),
                                          W(BitsFrom(address, 12, 9))),
                                      4096),
                             W(BitsFrom(address, 0, 12))))

\* C16 witness: an address translated through a 1GiB page that map_to
\* installed, with level-2 index, level-1 index and offset all nonzero
C16_Witness ==
    /\ last.op = "translate"
    /\ panic = "none"
    /\ is_huge(huge_entry3(mem, last.address))
    /\ frame_aligned(huge_entry3(mem, last.address), 18)
    /\ BitsFrom(last.address, 21, 9) = 511
    /\ BitsFrom(last.address, 12, 9) = 511
    /\ BitsFrom(last.address, 0, 12) = 4095
    /\ is_some(last.result)

\* C17: a translate step through a present huge level-3 entry whose start
\* frame is not 1GiB aligned, or a present huge level-2 entry whose start
\* frame is not 2MiB aligned, panics: the result is no address, and the
\* tables are as they were.
C17_MisalignedHugeFatal ==
    [][(last'.op = "translate"
        /\ \/ /\ is_huge(huge_entry3(mem, last'.address))
              /\ ~frame_aligned(huge_entry3(mem, last'.address), 18)
           \/ /\ is_huge(huge_entry2(mem, last'.address))
              /\ ~frame_aligned(huge_entry2(mem, last'.address), 9))
       => /\ last'.result.tag = "Panic"
          /\ panic' = last'.result.msg
          /\ panic' # "none"
          /\ mem' = mem]_vars

\* C17 witness: translate has panicked on a 1GiB page whose start frame is
\* 2MiB aligned but not 1GiB aligned, and the entry is still there
C17_Witness ==
    /\ last.op = "translate"
    /\ panic = "1GiB huge page not aligned"
    /\ is_huge(huge_entry3(mem, last.address))
    /\ frame_aligned(huge_entry3(mem, last.address), 9)
    /\ ~frame_aligned(huge_entry3(mem, last.address), 18)

(***************************************************************************)
(* The entries of the tables the active level-4 table leads to             *)
(***************************************************************************)
\* the tables the entries of the given tables point to
child_tables(m, tables) ==
    UNION {{next_table(m, t, i).v :
               i \in {j \in DOMAIN TableAt(m, t) : is_some(next_table(m, t, j))}} :
           t \in tables}

\* the level-4 table and the tables of every level reached from it
reachable_tables(m) ==
    Bind(child_tables(m, {P4Frame}), LAMBDA t3 :
    Bind(child_tables(m, t3), LAMBDA t2 :
        {P4Frame} \cup t3 \cup t2 \cup child_tables(m, t2)))

\* the entries of the given tables that point to a table, the recursive
\* entry of the level-4 table left out
table_entries(m, tables) ==
    {e \in UNION {{<<t, i>> : i \in DOMAIN TableAt(m, t)} : t \in tables} :
        /\ is_some(next_table(m, e[1], e[2]))
        /\ ~(e[1] = P4Frame /\ e[2] = ENTRY_COUNT - 1)}

\* the tables form a tree below the level-4 table: the recursive entry
\* points to the level-4 table, and every other table is reached through
\* one entry of one table of the level above
tables_form_tree(m) ==
    /\ next_table(m, P4Frame, ENTRY_COUNT - 1) = Some(P4Frame)
    /\ \A e4 \in {table_entries(m, {P4Frame})} :
       \A t3 \in {{next_table(m, e[1], e[2]).v : e \in e4}} :
       \A e3 \in {table_entries(m, t3)} :
       \A t2 \in {{next_table(m, e[1], e[2]).v : e \in e3}} :
       \A e2 \in {table_entries(m, t2)} :
       \A t1 \in {{next_table(m, e[1], e[2]).v : e \in e2}} :
          /\ Cardinality(t3) = Cardinality(e4)
          /\ Cardinality(t2) = Cardinality(e3)
          /\ Cardinality(t1) = Cardinality(e2)
          /\ Cardinality({P4Frame} \cup t3 \cup t2 \cup t1)
                = 1 + Cardinality(t3) + Cardinality(t2) + Cardinality(t1)

\* an entry is all zero, or has PRESENT
entry_ok(entry) == entry = Zero \/ Bit(entry, 0) = 1

\* every entry of every reachable table is unused or present
entries_ok(m) ==
    \A t \in reachable_tables(m) :
        \A i \in DOMAIN TableAt(m, t) : entry_ok(TableAt(m, t)[i])

\* the recursive-mapping slot: the pages under the last level-4 entry, whose
\* level-1 table is a table of a higher level
in_recursive_slot(page) == p4_index(page) = ENTRY_COUNT - 1

\* C18 as stated: in every state the calls reach, every entry of every
\* reachable table is all zero or has PRESENT.
C18_AsClaimed == entries_ok(mem)

\* C18, for calls on pages outside the recursive-mapping slot: the tables
\* the calls start from form a tree and have every entry all zero or
\* present, and a map_to, map, identity_map or unmap step on a page outside
\* the recursive-mapping slot, taken where the tables form a tree and
\* every entry of every reachable table is all zero or present, leads to
\* such tables again; a completed map_to has installed the frame with
\* flags | PRESENT, and a completed unmap has left the whole entry zero.
C18_EntriesUnusedOrPresent ==
    /\ entries_ok(mem)
    /\ tables_form_tree(mem)
    /\ [][(/\ last'.op \in {"map_to", "map", "identity_map", "unmap"}
           /\ ~in_recursive_slot(op_page(last'))
           /\ tables_form_tree(mem)
           /\ entries_ok(mem))
          => /\ entries_ok(mem')
             /\ tables_form_tree(mem')
             /\ (last'.op # "unmap" /\ panic' = "none") =>
                   level1_entry(mem', op_page(last'))
                      = Some(OrW(OrW(Frame_start_address(
                                       IF last'.op = "map" THEN last'.frame.v
                                                           ELSE last'.frame),
                                     last'.flags),
                                 PRESENT))
             /\ (last'.op = "unmap" /\ panic' = "none") =>
                   level1_entry(mem', op_page(last')) = Some(Zero)]_vars

\* C18 witness: map_to with empty flags has installed a present entry for a
\* page outside the recursive-mapping slot, in a level-1 table made from a
\* frame that held leftover entries
C18_Witness ==
    /\ last.op = "map_to"
    /\ panic = "none"
    /\ last.flags = EntryFlags_empty
    /\ ~in_recursive_slot(last.page)
    /\ level1_entry(mem, last.page)
          = Some(OrW(Frame_start_address(last.frame), PRESENT))
    /\ Len(handed) = 3
    /\ handed[3] \in JunkFrames
    /\ handed[3] \in reachable_tables(mem)
    /\ entries_ok(mem)
    /\ tables_form_tree(mem)

(***************************************************************************)
(* The pages a call leaves alone                                           *)
(***************************************************************************)
\* an entry on the way to the level-1 table of the page is a huge page
huge_on_path(m, page) ==
    \E path \in {table_path(m, page)} :
        \/ is_huge(EntryAt(m, P4Frame, p4_index(page)))
        \/ is_some(path[1]) /\ is_huge(EntryAt(m, path[1].v, p3_index(page)))
        \/ is_some(path[2]) /\ is_huge(EntryAt(m, path[2].v, p2_index(page)))

\* pages whose translation is compared before and after a call on a page:
\* the pages that differ from it in one index, the pages the calls are made
\* on, and two pages of the huge pages of the boot tables; none of the
\* recursive-mapping slot, none the page itself
OtherPages(page) ==
    {q \in
     ({IndexPage(p4_index(page), i, p2_index(page), p1_index(page)) : i \in ProbeIndices}
     \cup {IndexPage(p4_index(page), p3_index(page), i, p1_index(page)) : i \in ProbeIndices}
     \cup {IndexPage(p4_index(page), p3_index(page), p2_index(page), i) : i \in ProbeIndices}
     \cup {PageChoices[i] : i \in 1..Len(PageChoices)}
     \cup {IndexPage(0, 0, 0, 1), IndexPage(0, 0, 1, 1)})
     : q # page /\ ~in_recursive_slot(q)}

\* every other page translates after the step as it did before
others_unchanged(page) ==
    \/ mem' = mem
    \/ \A q \in OtherPages(page) :
          translate(mem', start_address(q)) = translate(mem, start_address(q))

\* C19 as stated: a map_to or unmap step on a page p leaves the translation
\* of every other page q outside the recursive-mapping slot as it was, and
\* a translate step leaves the tables as they were.
C19_AsClaimed ==
    [][/\ last'.op \in {"map_to", "unmap"} => others_unchanged(last'.page)
       /\ last'.op = "translate" => mem' = mem]_vars

\* C19, for calls on pages outside the recursive-mapping slot that no huge
\* page covers: where the tables form a tree, a map_to or unmap step on
\* such a page p (map and identity_map call map_to) leaves the tables a
\* tree and the translation of every other page q outside the
\* recursive-mapping slot as it was, whether or not the call created
\* tables, and a translate step leaves the tables as they were.
C19_OtherPagesUnchanged ==
    [][/\ (/\ last'.op \in {"map_to", "map", "identity_map", "unmap"}
           /\ ~in_recursive_slot(op_page(last'))
           /\ tables_form_tree(mem)
           /\ ~huge_on_path(mem, op_page(last')))
             => /\ others_unchanged(op_page(last'))
                /\ tables_form_tree(mem')
       /\ last'.op = "translate" => mem' = mem]_vars

\* C19 witness: map_to completed on a page outside the recursive-mapping
\* slot and created its level-2 and level-1 tables, while a page of a huge
\* page of the boot tables still translates
C19_Witness ==
    /\ last.op = "map_to"
    /\ panic = "none"
    /\ ~in_recursive_slot(last.page)
    /\ ~huge_on_path(mem, last.page)
    /\ tables_form_tree(mem)
    /\ calls = 1
    /\ Len(handed) = 2
    /\ table_path(mem, last.page)[3] = Some(handed[2])
    /\ IndexPage(0, 0, 0, 1) \in OtherPages(last.page)
    /\ translate(mem, IndexAddress(0, 0, 0, 1)) = Some(IndexAddress(0, 0, 0, 1))

(***************************************************************************)
(* map calls only, all served by the one allocator, with allocate_frame    *)
(* calls of the caller in between                                          *)
(***************************************************************************)
MapNext ==
    \/ \E page \in Pages, flags \in FlagSets : Map(page, flags)
    \/ TestAllocate

MapSpec == Init /\ [][MapNext]_vars

\* the frames of a sequence
frames_of(seq) == {seq[i] : i \in 1..Len(seq)}

\* the frames the pages are mapped to by a level-1 entry, as map maps them;
\* the huge pages of the boot tables are no such mapping
mapped_frames(m, pages) ==
    {translate_page(m, q).v :
        q \in {x \in pages : ~huge_on_path(m, x) /\ is_some(translate_page(m, x))}}

\* what a map step on a page guarantees about its data frame
map_frame_apart(page) ==
    /\ ~is_some(last'.frame) =>
          /\ panic' = "out of memory"
          /\ mem' = mem
    /\ is_some(last'.frame) =>
          \A data \in {last'.frame.v} :
          \A fresh \in {frames_of(handed') \ (frames_of(handed) \cup {data})} :
             \* the data frame was never handed out before, as a data frame
             \* or as a table, and is none of the tables of this call
             /\ data \notin frames_of(handed)
             /\ Len(handed') = Cardinality(frames_of(handed'))
             \* the tables of this call are no frame a page is mapped to
             /\ fresh \cap mapped_frames(mem, Pages \cup OtherPages(page)) = {}
             \* the data frame is no page table
             /\ data \notin reachable_tables(mem')
             /\ fresh \subseteq reachable_tables(mem')
             \* and no other page is mapped to it
             /\ data \notin mapped_frames(mem', (Pages \cup OtherPages(page)) \ {page})
             /\ panic' = "none" => translate_page(mem', page) = Some(data)

\* C20 as stated: the guarantees hold for every map step.
C20_AsClaimed ==
    [][last'.op = "map" => map_frame_apart(last'.page)]_vars

\* C20, for pages outside the recursive-mapping slot: in a run of map calls
\* served by one allocator, the data frame of a map step was never handed
\* out before and is none of the tables the step creates, it is no
\* reachable page table and no other page translates to it, and the tables
\* the step creates are no frame a page is mapped to; when the allocator
\* has no frame for the data frame, map panics and the tables are as they
\* were.
C20_DataFramesApart ==
    [][(last'.op = "map" /\ ~in_recursive_slot(last'.page))
          => map_frame_apart(last'.page)]_vars

\* C20 witness: the second completed map, on a page outside the
\* recursive-mapping slot; the first created three tables, and the two
\* pages translate to different frames
C20_Witness ==
    /\ last.op = "map"
    /\ panic = "none"
    /\ calls = 2
    /\ Len(handed) = 5
    /\ ~in_recursive_slot(last.page)
    /\ translate_page(mem, last.page) = Some(handed[5])
    /\ {handed[2], handed[3], handed[4]} \subseteq reachable_tables(mem)
    /\ handed[1] \in mapped_frames(mem, Pages \ {last.page})

(***************************************************************************)
(* remap_the_kernel: the kernel is mapped again in a new level-4 table,    *)
(* which then becomes the active one.  The methods of ActivePageTable are  *)
(* those above, on the table the view is onto instead of the table active  *)
(* at boot.                                                                *)
(***************************************************************************)
\* ActivePageTable::map_to on the view onto the level-4 table p4
map_to_in(s, p4, page, frame, flags) ==
    Bind(next_table_create(s, p4, p4_index(page)), LAMBDA r3 :
    Bind(next_table_create(r3.s, r3.t, p3_index(page)), LAMBDA r2 :
    Bind(next_table_create(r2.s, r2.t, p2_index(page)), LAMBDA r1 :
        IF ~Running(r1.s) THEN r1.s
        ELSE IF ~Entry_is_unused(EntryAt(r1.s.mem, r1.t, p1_index(page)))
        THEN Halt(r1.s, "map_to: page already mapped")
        ELSE [r1.s EXCEPT !.mem =
                 WriteEntry(@, r1.t, p1_index(page),
                            Entry_set(frame, OrW(flags, PRESENT)))])))

\* ActivePageTable::identity_map on the view onto the level-4 table p4
identity_map_in(s, p4, frame, flags) ==
    IF ~CanonicalAddress(Frame_start_address(frame))
    THEN Halt(s, "invalid address")
    ELSE map_to_in(s, p4, Page_containing_address(Frame_start_address(frame)),
                   frame, flags)

\* ActivePageTable::translate_page on the view onto the level-4 table p4
translate_page_in(m, p4, page) ==
    LET P2of(t3) == next_table(m, t3, p3_index(page))
        P1of(t2) == next_table(m, t2, p2_index(page))
        FrameOf(t1) == Entry_pointed_frame(EntryAt(m, t1, p1_index(page)))
    IN  Bind(next_table(m, p4, p4_index(page)), LAMBDA p3 :
        Bind(and_then(and_then(and_then(p3, P2of), P1of), FrameOf), LAMBDA walk :
            IF is_some(walk) THEN walk ELSE huge_page(m, page, p3)))

\* ActivePageTable::translate on the view onto the level-4 table p4
translate_in(m, p4, virtual_address) ==
    Bind(virtual_address, LAMBDA address :
        IF ~CanonicalAddress(address)
        THEN Panic("invalid address")
        ELSE Bind(translate_page_in(m, p4, Page_containing_address(address)),
                  LAMBDA r :
               IF is_some(r)
               THEN Some(Add(MulSmall(r.v.number, PAGE_SIZE),
                             W(ModSmall(address, PAGE_SIZE))))
               ELSE r))

\* the frames start .. end, in order; none when end is below start
RECURSIVE Frame_range_inclusive(_, _)
Frame_range_inclusive(start, end) ==
    IF Frame_lt(end, start) THEN <<>>
    ELSE <<start>> \o Frame_range_inclusive([number |-> Add(start.number, W(1))], end)

\* mutant of flags_from_section: a section that is not executable gets no
\* NO_EXECUTE
flags_from_section_executable(section) ==
    OrW(IF section.allocated THEN PRESENT ELSE EntryFlags_empty,
        IF section.writable THEN WRITABLE ELSE EntryFlags_empty)

\* the entry flags of the frames of an ELF section
flags_from_section(section) ==
    OrW(OrW(IF section.allocated THEN PRESENT ELSE EntryFlags_empty,
            IF section.writable THEN WRITABLE ELSE EntryFlags_empty),
        IF section.executable THEN EntryFlags_empty ELSE NO_EXECUTE)

\* the frames of a range of bytes, each with the given flags
to_map(first_byte, size, flags) ==
    Bind(Frame_range_inclusive(Frame_containing_address(first_byte),
                               Frame_containing_address(
                                   Sub(Add(first_byte, size), W(1)))),
         LAMBDA range : [i \in 1..Len(range) |-> [frame |-> range[i], flags |-> flags]])

\* the frames of the allocated sections among the first n, in order
RECURSIVE section_mappings(_, _)
section_mappings(sections, n) ==
    IF n = 0 THEN <<>>
    ELSE section_mappings(sections, n - 1)
         \o (IF sections[n].allocated
             THEN to_map(sections[n].addr, sections[n].size,
                         flags_from_section(sections[n]))
             ELSE <<>>)

\* the frame of the VGA text buffer, at 0xb8000
VgaFrame == Frame_containing_address(Hex4(\h0000, \h0000, \h000b, \h8000))

\* everything remap_the_kernel identity-maps: the allocated sections, the
\* boot information, the VGA text buffer
remap_mappings(info) ==
    section_mappings(info.elf_sections, Len(info.elf_sections))
    \o to_map(multiboot_start(info), info.total_size, PRESENT)
    \o <<[frame |-> VgaFrame, flags |-> WRITABLE]>>

\* identity_map of the first n of the mappings, in the table p4
RECURSIVE identity_map_all(_, _, _, _)
identity_map_all(s, p4, mappings, n) ==
    IF n = 0 THEN s
    ELSE Bind(identity_map_all(s, p4, mappings, n - 1), LAMBDA done :
           IF ~Running(done) THEN done
           ELSE identity_map_in(done, p4, mappings[n].frame, mappings[n].flags))

\* remap_the_kernel: [s, p4], p4 the frame of the active level-4 table
remap_the_kernel(before, info) ==
    Bind(call_allocate_frame(before), LAMBDA r :
        IF ~Running(r.s) THEN [s |-> r.s, p4 |-> P4Frame]
        ELSE IF ~is_some(r.frame)
        THEN [s |-> Halt(r.s, "no more frames"), p4 |-> P4Frame]
        ELSE
          Bind([r.s EXCEPT !.mem =
                   WriteEntry(Table_zero(@, r.frame.v), r.frame.v, ENTRY_COUNT - 1,
                              Entry_set(r.frame.v, OrW(PRESENT, WRITABLE)))],
               LAMBDA fresh :
          Bind(remap_mappings(info), LAMBDA mappings :
          Bind(identity_map_all(fresh, r.frame.v, mappings, Len(mappings)),
               LAMBDA mapped :
            [s |-> mapped,
             p4 |-> IF Running(mapped) THEN r.frame.v ELSE P4Frame]))))

\* the flag combinations of the ELF sections: code, read-only data, data,
\* a section that takes no memory, writable code
SectionKinds ==
    {[allocated |-> TRUE, writable |-> FALSE, executable |-> TRUE],
     [allocated |-> TRUE, writable |-> FALSE, executable |-> FALSE],
     [allocated |-> TRUE, writable |-> TRUE, executable |-> FALSE],
     [allocated |-> FALSE, writable |-> FALSE, executable |-> FALSE],
     [allocated |-> TRUE, writable |-> TRUE, executable |-> TRUE]}

ElfSection(addr, size, kind) ==
    [addr |-> addr, size |-> size, allocated |-> kind.allocated,
     writable |-> kind.writable, executable |-> kind.executable]

\* the boot information of the remap runs: three sections in the frames
\* 1..4 of the kernel image of PagingBoot, the first of one frame, or of one
\* byte more and then in a frame of the second
RemapBoots ==
    {[sections |-> {sections[i] : i \in 1..Len(sections)},
      elf_sections |-> sections,
      multiboot_information_address |-> PagingBoot.multiboot_information_address,
      total_size |-> PagingBoot.total_size,
      memory_areas |-> PagingBoot.memory_areas] :
        sections \in
          {<<ElfSection(W(1 * PAGE_SIZE), W(PAGE_SIZE + extra), k[1]),
             ElfSection(W(2 * PAGE_SIZE), W(PAGE_SIZE + 512), k[2]),
             ElfSection(W(4 * PAGE_SIZE), W(512), k[3])>> :
              extra \in {0, 1},
              k \in SectionKinds \X SectionKinds \X SectionKinds}}

RemapInit ==
    \E info \in RemapBoots : InitMachine(info, WithLeftover(BootTables))

\* memory::remap_the_kernel(&mut frame_allocator, boot_info)
RemapTheKernel ==
    /\ panic = "none"
    /\ last.op # "remap_the_kernel"
    /\ \E r \in {remap_the_kernel(Machine, boot_info)} :
          /\ Become(r.s)
          /\ last' = [op |-> "remap_the_kernel", p4 |-> r.p4]
    /\ UNCHANGED <<boot_info, calls>>

\* rust_main: allocate_frame calls before the remap, then the remap
RemapNext ==
    \/ last.op # "remap_the_kernel" /\ TestAllocate
    \/ RemapTheKernel

RemapSpec == RemapInit /\ [][RemapNext]_vars

\* the numbers of the frames that hold a byte of the section
frames_holding(section) ==
    {n \in 0..(PoolFrames + 5) :
        /\ Lt(W(n * PAGE_SIZE), Add(section.addr, section.size))
        /\ Lt(section.addr, W((n + 1) * PAGE_SIZE))}

\* the level-1 entry of the page of the given number, in the table p4: Zero
\* where the page has no level-1 table
entry_in(m, p4, n) ==
    Bind(next_table(m, p4, 0), LAMBDA p3 :
    Bind(IF is_some(p3) THEN next_table(m, p3.v, 0) ELSE None, LAMBDA p2 :
    Bind(IF is_some(p2) THEN next_table(m, p2.v, n \div ENTRY_COUNT) ELSE None,
         LAMBDA p1 :
        IF is_some(p1) THEN EntryAt(m, p1.v, n % ENTRY_COUNT) ELSE Zero)))

=============================================================================
